---------------------------- MODULE Spec2Model ----------------------------
(***************************************************************************)
(* A model of integrations/test-gitlab/client.py: GitLabHandler, its       *)
(* rate-limited paginated request loop, the recursive group traversal and  *)
(* the per-kind normalisation of the fetched records.                      *)
(*                                                                         *)
(* Every fetch is an asyncio coroutine.  A coroutine runs without          *)
(* interruption between two awaits, so one action of the model is the code *)
(* that runs from one await to the next: `await http_async_client.get`     *)
(* (pc = "get", the request is in flight) and `await asyncio.sleep`        *)
(* (pc = "sleep").  The upstream host and the caller are the environment.  *)
(***************************************************************************)
EXTENDS Integers, Sequences, FiniteSets, TLC

VARIABLES
    upstream,         \* what the upstream host holds and may answer
    pc,               \* per task: where the coroutine stands
    op,               \* per task: the operation the caller started
    url,              \* per task: local `url` of _rate_limited_request
    params,           \* per task: argument `params` of _rate_limited_request
    all_data,         \* per task: local `all_data` of _rate_limited_request
    stack,            \* per task: the fetch_groups activations, outermost first
    result,           \* per task: the list returned to the caller
    error,            \* per task: the exception raised to the caller
    cancelRequested,  \* per task: the caller has called Task.cancel()
    requests,         \* per task: log of the requests handed to the client
    responses         \* per task: log of the responses received

vars == <<upstream, pc, op, url, params, all_data, stack, result, error,
          cancelRequested, requests, responses>>

(***************************************************************************)
(* Bounds of the model.                                                    *)
(***************************************************************************)
MaxRequests == 3      \* requests one task may issue
MaxPageLen == 2       \* records on one page of a flat endpoint
MaxListing == 2       \* groups in one listing of the group hierarchy
RecursionLimit == 3   \* nested fetch_groups activations the interpreter allows

Tasks == {1, 2}
RecordIds == {1, 2}
GroupIds == {0, 1}
FlatOps == {"projects", "merge_requests", "issues"}
Ops == FlatOps \cup {"groups"}

(***************************************************************************)
(* Raw records.  A raw record is the dict of one upstream item: `has` is   *)
(* the set of keys it carries, `id` the value under "id" and `count` the   *)
(* value under "subgroup_count".  The other values are opaque: the value   *)
(* under key k is written k.                                               *)
(***************************************************************************)
GroupKeys == {"id", "name", "web_url", "description", "visibility", "subgroup_count"}
ProjectKeys == {"id", "name", "web_url", "description", "namespace", "namespace.full_path"}
MergeRequestKeys == {"id", "title", "state", "author", "author.username", "created_at",
                     "updated_at", "web_url", "merged_at", "reviewers", "reviewers[].username"}
IssueKeys == {"id", "title", "state", "author", "author.username", "created_at",
              "updated_at", "web_url", "closed_at", "labels"}

KeysOf(o) ==
    CASE o = "groups" -> GroupKeys
      [] o = "projects" -> ProjectKeys
      [] o = "merge_requests" -> MergeRequestKeys
      [] OTHER -> IssueKeys

\* A key nested in another is gone when the outer key is.
Nested(k) ==
    CASE k = "author" -> {"author.username"}
      [] k = "namespace" -> {"namespace.full_path"}
      [] k = "reviewers" -> {"reviewers[].username"}
      [] OTHER -> {}

Raw(o, n, c, missing) ==
    [id |-> IF "id" \in missing THEN 0 ELSE n,
     count |-> IF "subgroup_count" \in missing THEN 0 ELSE c,
     has |-> (KeysOf(o) \ missing) \ UNION {Nested(k) : k \in missing}]

\* Records carrying every key.
FullRecords(o) == {Raw(o, n, 0, {}) : n \in RecordIds}

\* Records lacking at most one key.
SparseRecords(o) ==
    {Raw(o, n, 0, {}) : n \in {1}} \cup {Raw(o, 1, 0, {k}) : k \in KeysOf(o)}

SeqsUpTo(S, n) == UNION {[1..k -> S] : k \in 0..n}

RECURSIVE Concat(_)
Concat(ss) == IF ss = <<>> THEN <<>> ELSE Head(ss) \o Concat(Tail(ss))

Last(s) == s[Len(s)]

(***************************************************************************)
(* Values of the program.                                                  *)
(***************************************************************************)
NoUrl == [endpoint |-> [path |-> "", id |-> 0], page |-> "None"]
NoParams == {}
NoError == [type |-> "none", status |-> 0]
HeaderValues == {"None", "", "2"}    \* X-Next-Page: absent, empty, a page
ErrorStatuses == {404, 500}

\* Mutant of line 51: `if next_page is not None`, which takes "" for a token.
TruthyNotNone(next_page) == next_page # "None"

Truthy(next_page) == next_page \notin {"None", ""}

\* line 55: parent_id: Optional[int] = None
NoParent == -1

\* line 58: endpoint = "/groups" if not parent_id else f"/groups/{parent_id}/subgroups"
\* `not parent_id` is true of None and of 0.
GroupsEndpoint(parent_id) ==
    IF parent_id = NoParent \/ parent_id = 0
    THEN [path |-> "/groups", id |-> 0]
    ELSE [path |-> "/groups/{id}/subgroups", id |-> parent_id]

EndpointOf(o) == [path |-> "/" \o o, id |-> 0]

\* lines 83, 101, 123: the query parameters each operation passes.
ParamsOf(o) ==
    CASE o = "projects" -> {"per_page"}
      [] o \in {"merge_requests", "issues"} -> {"scope", "per_page"}
      [] OTHER -> NoParams

(***************************************************************************)
(* The upstream host.  upstream.records[o] are the raw records the flat    *)
(* endpoint of operation o may put on a page and upstream.tokens the       *)
(* X-Next-Page values it may send: any page over them, with any token, in  *)
(* any order.  upstream.tree is the group hierarchy: the listing of        *)
(* /groups (top), the listing of /groups/{g}/subgroups (sub[g]) and the    *)
(* raw record of each group (rec[g]).                                      *)
(***************************************************************************)
Listings == {s \in SeqsUpTo(GroupIds, MaxListing) : \A i, j \in 1..Len(s) : s[i] = s[j] => i = j}

GroupRecords(g) ==
    {Raw("groups", g, c, {}) : c \in {0, 1}} \cup {Raw("groups", g, 0, {"subgroup_count"})}

Trees ==
    {[top |-> t, sub |-> s, rec |-> r] :
        t \in Listings, s \in [GroupIds -> Listings],
        r \in {f \in [GroupIds -> UNION {GroupRecords(g) : g \in GroupIds}] :
                  \A g \in GroupIds : f[g] \in GroupRecords(g)}}

NoTree == [top |-> <<>>, sub |-> [g \in GroupIds |-> <<>>],
           rec |-> [g \in GroupIds |-> Raw("groups", g, 0, {})]]

\* The listing the hierarchy holds for an endpoint of the groups API.
ListingOf(tree, endpoint) ==
    LET ids == IF endpoint.path = "/groups" THEN tree.top ELSE tree.sub[endpoint.id]
    IN  [i \in 1..Len(ids) |-> tree.rec[ids[i]]]

\* The successful answers the upstream may give to the request in flight.
AnswersTo(t) ==
    IF pc[t] # "get" THEN {}
    ELSE IF op[t] = "groups"
    THEN {[status |-> 200, data |-> ListingOf(upstream.tree, url[t].endpoint), next |-> "None"]}
    ELSE {[status |-> 200, data |-> d, next |-> n] :
            d \in SeqsUpTo(upstream.records[op[t]], MaxPageLen), n \in upstream.tokens}

(***************************************************************************)
(* Normalisation: the dict each fetch builds for one raw record.           *)
(***************************************************************************)
\* r[k]: raises KeyError when the key is absent.
\* r.get(k): None when the key is absent.
Get(r, k) == IF k \in r.has THEN k ELSE "None"

\* lines 63-69
GroupRequired == {"id", "name", "web_url"}

GroupEntity(r) ==
    [identifier |-> r.id, name |-> "name", url |-> "web_url",
     description |-> Get(r, "description"), visibility |-> Get(r, "visibility")]

\* lines 87-93: project["description"] is indexed, not .get
ProjectRequired == {"id", "name", "web_url", "description"}

ProjectEntity(r) ==
    [identifier |-> r.id, name |-> "name", url |-> "web_url",
     description |-> "description",
     namespace |-> Get(r, "namespace.full_path")]

\* lines 105-115: reviewer["username"] is indexed for every reviewer
MergeRequestRequired ==
    {"id", "title", "state", "author", "author.username", "created_at", "updated_at", "web_url"}

MergeRequestFails(r) ==
    \/ MergeRequestRequired \ r.has # {}
    \/ "reviewers" \in r.has /\ "reviewers[].username" \notin r.has

MergeRequestEntity(r) ==
    [identifier |-> r.id, title |-> "title", status |-> "state",
     author |-> "author.username", createdAt |-> "created_at",
     updatedAt |-> "updated_at", mergedAt |-> Get(r, "merged_at"),
     link |-> "web_url",
     reviewers |-> IF "reviewers" \in r.has THEN "reviewers[].username" ELSE "[]"]

\* lines 127-137
IssueRequired ==
    {"id", "title", "state", "author", "author.username", "created_at", "updated_at", "web_url"}

IssueEntity(r) ==
    [identifier |-> r.id, title |-> "title", status |-> "state",
     author |-> "author.username", createdAt |-> "created_at",
     updatedAt |-> "updated_at", closedAt |-> Get(r, "closed_at"),
     link |-> "web_url",
     labels |-> IF "labels" \in r.has THEN "labels" ELSE "[]"]

\* Whether building the dict of record r raises (KeyError).
Raises(o, r) ==
    CASE o = "groups" -> GroupRequired \ r.has # {}
      [] o = "projects" -> ProjectRequired \ r.has # {}
      [] o = "merge_requests" -> MergeRequestFails(r)
      [] OTHER -> IssueRequired \ r.has # {}

Entity(o, r) ==
    CASE o = "groups" -> GroupEntity(r)
      [] o = "projects" -> ProjectEntity(r)
      [] o = "merge_requests" -> MergeRequestEntity(r)
      [] OTHER -> IssueEntity(r)

(***************************************************************************)
(* The coroutines.                                                         *)
(***************************************************************************)
Frame(parent_id) == [parent_id |-> parent_id, data |-> <<>>, i |-> 1, all_groups |-> <<>>]

\* Mutant of line 38: the caller's params go with the first page only.
RequestFirstPageParams(u, p) ==
    [endpoint |-> u.endpoint, page |-> u.page, params |-> IF u.page = "None" THEN p ELSE NoParams]

\* line 38: http_async_client.get(url, params=params, ...): the request handed
\* to the client, with the caller's params on every iteration of the loop.
Request(u, p) == [endpoint |-> u.endpoint, page |-> u.page, params |-> p]

MayRequest(t) == Len(requests[t]) < MaxRequests

\* asyncio resumes a suspended coroutine normally only if it was not cancelled.
Resumes(t) == ~cancelRequested[t]

\* lines 31-38 (and 55-59, 79-84, 97-102, 119-124): the caller starts operation o
\* as task t; the coroutine runs up to its first await, the first page request.
Call(t, o) ==
    /\ pc[t] = "idle"
    /\ MayRequest(t)
    /\ LET endpoint == IF o = "groups" THEN GroupsEndpoint(NoParent) ELSE EndpointOf(o)
           u == [endpoint |-> endpoint, page |-> "None"]
       IN  /\ url' = [url EXCEPT ![t] = u]
           /\ params' = [params EXCEPT ![t] = ParamsOf(o)]
           /\ requests' = [requests EXCEPT ![t] = Append(@, Request(u, ParamsOf(o)))]
    /\ op' = [op EXCEPT ![t] = o]
    /\ stack' = [stack EXCEPT ![t] = IF o = "groups" THEN <<Frame(NoParent)>> ELSE <<>>]
    /\ all_data' = [all_data EXCEPT ![t] = <<>>]
    /\ pc' = [pc EXCEPT ![t] = "get"]
    /\ UNCHANGED <<upstream, result, error, cancelRequested, responses>>

\* An exception leaves the coroutine: its locals are dropped, nothing is returned.
Fail(t, e) ==
    /\ pc' = [pc EXCEPT ![t] = "failed"]
    /\ error' = [error EXCEPT ![t] = e]
    /\ url' = [url EXCEPT ![t] = NoUrl]
    /\ all_data' = [all_data EXCEPT ![t] = <<>>]
    /\ stack' = [stack EXCEPT ![t] = <<>>]
    /\ UNCHANGED <<upstream, op, params, result, cancelRequested, requests>>

\* Mutant of lines 40-43: no branch for 429, so raise_for_status raises on it.
Get429Raises(t) ==
    /\ pc[t] = "get"
    /\ Resumes(t)
    /\ responses' = [responses EXCEPT ![t] = Append(@, [status |-> 429, data |-> <<>>, next |-> "None"])]
    /\ Fail(t, [type |-> "HTTPStatusError", status |-> 429])

\* Mutant of lines 40-43: a retry ceiling: the second 429 of a fetch is raised.
Get429Ceiling(t) ==
    /\ pc[t] = "get"
    /\ Resumes(t)
    /\ responses' = [responses EXCEPT ![t] = Append(@, [status |-> 429, data |-> <<>>, next |-> "None"])]
    /\ IF \E i \in 1..Len(responses[t]) : responses[t][i].status = 429
       THEN Fail(t, [type |-> "HTTPStatusError", status |-> 429])
       ELSE /\ pc' = [pc EXCEPT ![t] = "sleep"]
            /\ UNCHANGED <<upstream, op, url, params, all_data, stack, result, error,
                           cancelRequested, requests>>

\* lines 40-43: status 429: log, await asyncio.sleep(rate_limit_period).
Get429(t) ==
    /\ pc[t] = "get"
    /\ Resumes(t)
    /\ responses' = [responses EXCEPT ![t] = Append(@, [status |-> 429, data |-> <<>>, next |-> "None"])]
    /\ pc' = [pc EXCEPT ![t] = "sleep"]
    /\ UNCHANGED <<upstream, op, url, params, all_data, stack, result, error,
                   cancelRequested, requests>>

\* Mutant of lines 42-43: after the sleep the fetch starts over at the first page.
WakeRestarts(t) ==
    /\ pc[t] = "sleep"
    /\ Resumes(t)
    /\ MayRequest(t)
    /\ url' = [url EXCEPT ![t] = [endpoint |-> url[t].endpoint, page |-> "None"]]
    /\ requests' = [requests EXCEPT ![t] =
                       Append(@, Request([endpoint |-> url[t].endpoint, page |-> "None"], params[t]))]
    /\ pc' = [pc EXCEPT ![t] = "get"]
    /\ UNCHANGED <<upstream, op, params, all_data, stack, result, error,
                   cancelRequested, responses>>

\* lines 42-43, 37-38: the sleep ends, `continue`, the loop requests `url` again.
Wake(t) ==
    /\ pc[t] = "sleep"
    /\ Resumes(t)
    /\ MayRequest(t)
    /\ requests' = [requests EXCEPT ![t] = Append(@, Request(url[t], params[t]))]
    /\ pc' = [pc EXCEPT ![t] = "get"]
    /\ UNCHANGED <<upstream, op, url, params, all_data, stack, result, error,
                   cancelRequested, responses>>

\* Mutant of line 45: every status that is not 2xx is slept on and retried.
GetErrorRetried(t, status) ==
    /\ pc[t] = "get"
    /\ Resumes(t)
    /\ responses' = [responses EXCEPT ![t] = Append(@, [status |-> status, data |-> <<>>, next |-> "None"])]
    /\ pc' = [pc EXCEPT ![t] = "sleep"]
    /\ UNCHANGED <<upstream, op, url, params, all_data, stack, result, error,
                   cancelRequested, requests>>

\* line 45: response.raise_for_status() raises on a status that is not 2xx.
GetError(t, status) ==
    /\ pc[t] = "get"
    /\ Resumes(t)
    /\ responses' = [responses EXCEPT ![t] = Append(@, [status |-> status, data |-> <<>>, next |-> "None"])]
    /\ Fail(t, [type |-> "HTTPStatusError", status |-> status])

\* Mutant of line 38: the timeout is caught and the request is made again.
GetTimeoutRetried(t) ==
    /\ pc[t] = "get"
    /\ Resumes(t)
    /\ MayRequest(t)
    /\ requests' = [requests EXCEPT ![t] = Append(@, Request(url[t], params[t]))]
    /\ UNCHANGED <<upstream, pc, op, url, params, all_data, stack, result, error,
                   cancelRequested, responses>>

\* line 38: `timeout=30`: no response within the timeout, the awaited get raises
\* the client's timeout exception, which no handler of the fetch catches.
GetTimeout(t) ==
    /\ pc[t] = "get"
    /\ Resumes(t)
    /\ Fail(t, [type |-> "TimeoutException", status |-> 0])
    /\ UNCHANGED responses

\* line 51: url = f"{api_url}{endpoint}?page={next_page}" if next_page else None
NextUrl(u, next_page) ==
    IF Truthy(next_page) THEN [endpoint |-> u.endpoint, page |-> next_page] ELSE NoUrl

\* Mutants of line 47: assignment instead of extend; extend at the front.
ExtendOverwrites(acc, data) == data

ExtendAtFront(acc, data) == data \o acc

\* line 47: all_data.extend(data)
Extend(acc, data) == acc \o data

\* lines 45-53: a 2xx response: extend all_data, follow X-Next-Page, and either
\* request the next page (line 38) or return all_data to the fetch that called.
GetOK(t, answer) ==
    /\ pc[t] = "get"
    /\ Resumes(t)
    /\ answer \in AnswersTo(t)
    /\ responses' = [responses EXCEPT ![t] = Append(@, answer)]
    /\ LET acc == Extend(all_data[t], answer.data)
           u == NextUrl(url[t], answer.next)
       IN  /\ all_data' = [all_data EXCEPT ![t] = acc]
           /\ url' = [url EXCEPT ![t] = u]
           /\ IF u # NoUrl
              THEN /\ MayRequest(t)
                   /\ requests' = [requests EXCEPT ![t] = Append(@, Request(u, params[t]))]
                   /\ pc' = [pc EXCEPT ![t] = "get"]
                   /\ UNCHANGED stack
              ELSE /\ UNCHANGED requests
                   /\ IF op[t] = "groups"
                      THEN /\ stack' = [stack EXCEPT ![t][Len(stack[t])].data = acc]
                           /\ pc' = [pc EXCEPT ![t] = "loop"]
                      ELSE /\ UNCHANGED stack
                           /\ pc' = [pc EXCEPT ![t] = "normalize"]
    /\ UNCHANGED <<upstream, op, params, result, error, cancelRequested>>

\* lines 86-95, 104-117, 126-139: the list comprehension over data.
NormalizeBatch(o, data) == [i \in 1..Len(data) |-> Entity(o, data[i])]

BatchRaises(o, data) == \E i \in 1..Len(data) : Raises(o, data[i])

\* Mutant of lines 86, 104, 126: the entities are collected in a list the
\* handler keeps between invocations, which still holds the previous result.
NormalizeKeepsPrevious(t) ==
    /\ pc[t] = "normalize"
    /\ IF BatchRaises(op[t], all_data[t])
       THEN Fail(t, [type |-> "KeyError", status |-> 0])
       ELSE /\ result' = [result EXCEPT ![t] =
                             Concat([u \in 1..(t - 1) |-> result[u]])
                                 \o NormalizeBatch(op[t], all_data[t])]
            /\ pc' = [pc EXCEPT ![t] = "done"]
            /\ url' = [url EXCEPT ![t] = NoUrl]
            /\ all_data' = [all_data EXCEPT ![t] = <<>>]
            /\ UNCHANGED <<upstream, op, params, stack, error, cancelRequested, requests>>
    /\ UNCHANGED responses

Normalize(t) ==
    /\ pc[t] = "normalize"
    /\ IF BatchRaises(op[t], all_data[t])
       THEN Fail(t, [type |-> "KeyError", status |-> 0])
       ELSE /\ result' = [result EXCEPT ![t] = NormalizeBatch(op[t], all_data[t])]
            /\ pc' = [pc EXCEPT ![t] = "done"]
            /\ url' = [url EXCEPT ![t] = NoUrl]
            /\ all_data' = [all_data EXCEPT ![t] = <<>>]
            /\ UNCHANGED <<upstream, op, params, stack, error, cancelRequested, requests>>
    /\ UNCHANGED responses

\* Mutant of line 72: `>= 0`, which recurses for every group.
HasSubgroupsNonNegative(r) == r.count >= 0

\* line 72: group.get("subgroup_count", 0) > 0
HasSubgroups(r) == "subgroup_count" \in r.has /\ r.count > 0

Top(t) == stack[t][Len(stack[t])]

\* Mutant of lines 62-74: a group whose dict cannot be built is skipped (the
\* body of the loop in a try/except that logs and continues).
GroupsLoopSkipsMalformed(t) ==
    /\ pc[t] = "loop"
    /\ Top(t).i <= Len(Top(t).data)
    /\ LET group == Top(t).data[Top(t).i]
           n == Len(stack[t])
           appended == Append(Top(t).all_groups, GroupEntity(group))
           u == [endpoint |-> GroupsEndpoint(group.id), page |-> "None"]
       IN  IF Raises("groups", group)
           THEN /\ stack' = [stack EXCEPT ![t][n].i = Top(t).i + 1]
                /\ UNCHANGED <<upstream, pc, op, url, params, all_data, result, error,
                               cancelRequested, requests>>
           ELSE IF ~HasSubgroups(group)
           THEN /\ stack' = [stack EXCEPT ![t][n].all_groups = appended,
                                          ![t][n].i = Top(t).i + 1]
                /\ UNCHANGED <<upstream, pc, op, url, params, all_data, result, error,
                               cancelRequested, requests>>
           ELSE IF n >= RecursionLimit
           THEN Fail(t, [type |-> "RecursionError", status |-> 0])
           ELSE /\ MayRequest(t)
                /\ stack' = [stack EXCEPT ![t] =
                                Append([@ EXCEPT ![n].all_groups = appended], Frame(group.id))]
                /\ url' = [url EXCEPT ![t] = u]
                /\ all_data' = [all_data EXCEPT ![t] = <<>>]
                /\ requests' = [requests EXCEPT ![t] = Append(@, Request(u, NoParams))]
                /\ pc' = [pc EXCEPT ![t] = "get"]
                /\ UNCHANGED <<upstream, op, params, result, error, cancelRequested>>
    /\ UNCHANGED responses

\* lines 62-74: one iteration of `for group in data`: append the group's dict
\* and, if it has subgroups, call fetch_groups(parent_id=group["id"]), which
\* runs up to its first page request (lines 57-60, 33-38).
GroupsLoop(t) ==
    /\ pc[t] = "loop"
    /\ Top(t).i <= Len(Top(t).data)
    /\ LET group == Top(t).data[Top(t).i]
           n == Len(stack[t])
           appended == Append(Top(t).all_groups, GroupEntity(group))
           u == [endpoint |-> GroupsEndpoint(group.id), page |-> "None"]
       IN  IF Raises("groups", group)
           THEN Fail(t, [type |-> "KeyError", status |-> 0])
           ELSE IF ~HasSubgroups(group)
           THEN /\ stack' = [stack EXCEPT ![t][n].all_groups = appended,
                                          ![t][n].i = Top(t).i + 1]
                /\ UNCHANGED <<upstream, pc, op, url, params, all_data, result, error,
                               cancelRequested, requests>>
           ELSE IF n >= RecursionLimit
           THEN Fail(t, [type |-> "RecursionError", status |-> 0])
           ELSE /\ MayRequest(t)
                /\ stack' = [stack EXCEPT ![t] =
                                Append([@ EXCEPT ![n].all_groups = appended], Frame(group.id))]
                /\ url' = [url EXCEPT ![t] = u]
                /\ all_data' = [all_data EXCEPT ![t] = <<>>]
                /\ requests' = [requests EXCEPT ![t] = Append(@, Request(u, NoParams))]
                /\ pc' = [pc EXCEPT ![t] = "get"]
                /\ UNCHANGED <<upstream, op, params, result, error, cancelRequested>>
    /\ UNCHANGED responses

\* line 76, and lines 73-74 of the caller: the loop is over, all_groups is
\* returned: to the caller of the operation, or to the activation that
\* recursed, which extends its own all_groups and goes on with its loop.
GroupsReturn(t) ==
    /\ pc[t] = "loop"
    /\ Top(t).i > Len(Top(t).data)
    /\ LET n == Len(stack[t])
       IN  IF n = 1
           THEN /\ result' = [result EXCEPT ![t] = Top(t).all_groups]
                /\ pc' = [pc EXCEPT ![t] = "done"]
                /\ stack' = [stack EXCEPT ![t] = <<>>]
                /\ all_data' = [all_data EXCEPT ![t] = <<>>]
           ELSE /\ stack' = [stack EXCEPT ![t] =
                                [SubSeq(@, 1, n - 1) EXCEPT
                                    ![n - 1].all_groups = Extend(@, Top(t).all_groups),
                                    ![n - 1].i = @ + 1]]
                /\ UNCHANGED <<pc, result, all_data>>
    /\ UNCHANGED <<upstream, op, url, params, error, cancelRequested, requests, responses>>

\* The caller cancels the task while it is suspended at an await.
Cancel(t) ==
    /\ pc[t] \in {"get", "sleep"}
    /\ ~cancelRequested[t]
    /\ cancelRequested' = [cancelRequested EXCEPT ![t] = TRUE]
    /\ UNCHANGED <<upstream, pc, op, url, params, all_data, stack, result, error,
                   requests, responses>>

\* Mutant of lines 38, 42: the await sits in a handler that catches whatever is
\* raised and goes round the loop again.
CancelledSwallowed(t) ==
    /\ pc[t] \in {"get", "sleep"}
    /\ cancelRequested[t]
    /\ MayRequest(t)
    /\ requests' = [requests EXCEPT ![t] = Append(@, Request(url[t], params[t]))]
    /\ pc' = [pc EXCEPT ![t] = "get"]
    /\ cancelRequested' = [cancelRequested EXCEPT ![t] = FALSE]
    /\ UNCHANGED <<upstream, op, url, params, all_data, stack, result, error, responses>>

\* lines 38, 42: the await of a cancelled task raises CancelledError, which no
\* handler of the fetch catches.
Cancelled(t) ==
    /\ pc[t] \in {"get", "sleep"}
    /\ cancelRequested[t]
    /\ Fail(t, [type |-> "CancelledError", status |-> 0])
    /\ UNCHANGED responses

(***************************************************************************)
(* Specifications.                                                         *)
(***************************************************************************)
InitTasks ==
    /\ pc = [t \in Tasks |-> "idle"]
    /\ op = [t \in Tasks |-> "none"]
    /\ url = [t \in Tasks |-> NoUrl]
    /\ params = [t \in Tasks |-> NoParams]
    /\ all_data = [t \in Tasks |-> <<>>]
    /\ stack = [t \in Tasks |-> <<>>]
    /\ result = [t \in Tasks |-> <<>>]
    /\ error = [t \in Tasks |-> NoError]
    /\ cancelRequested = [t \in Tasks |-> FALSE]
    /\ requests = [t \in Tasks |-> <<>>]
    /\ responses = [t \in Tasks |-> <<>>]

\* One fetch of a flat endpoint, against an upstream that answers anything.
Init ==
    /\ upstream = [records |-> [o \in FlatOps |-> FullRecords(o)],
                   tokens |-> HeaderValues, tree |-> NoTree]
    /\ InitTasks

Next ==
    \/ \E o \in FlatOps : Call(1, o)
    \/ Get429(1)
    \/ Wake(1)
    \/ \E s \in ErrorStatuses : GetError(1, s)
    \/ GetTimeout(1)
    \/ \E a \in AnswersTo(1) : GetOK(1, a)
    \/ Normalize(1)
    \/ Cancel(1)
    \/ Cancelled(1)

Spec == Init /\ [][Next]_vars

\* One fetch_groups, against an upstream that holds any small group hierarchy.
InitGroups ==
    /\ upstream \in {[records |-> [o \in FlatOps |-> {}], tokens |-> {"None"}, tree |-> tr] :
                        tr \in Trees}
    /\ InitTasks

NextGroups ==
    \/ Call(1, "groups")
    \/ Get429(1)
    \/ Wake(1)
    \/ \E s \in ErrorStatuses : GetError(1, s)
    \/ GetTimeout(1)
    \/ \E a \in AnswersTo(1) : GetOK(1, a)
    \/ GroupsLoop(1)
    \/ GroupsReturn(1)
    \/ Cancel(1)
    \/ Cancelled(1)

SpecGroups == InitGroups /\ [][NextGroups]_vars

\* One fetch_groups, against a hierarchy in which a group's record may lack a
\* key its dict is built from by indexing.
DeepGroupRecords(g) ==
    GroupRecords(g) \cup {Raw("groups", g, 0, {k}) : k \in {"name", "web_url"}}

DeepTrees ==
    {[top |-> t, sub |-> s, rec |-> r] :
        t \in Listings, s \in [GroupIds -> Listings],
        r \in {f \in [GroupIds -> UNION {DeepGroupRecords(g) : g \in GroupIds}] :
                  \A g \in GroupIds : f[g] \in DeepGroupRecords(g)}}

InitDeep ==
    /\ upstream \in {[records |-> [o \in FlatOps |-> {}], tokens |-> {"None"}, tree |-> tr] :
                        tr \in DeepTrees}
    /\ InitTasks

SpecDeep == InitDeep /\ [][NextGroups]_vars

\* One fetch of any kind, against an upstream that answers in a single page
\* and whose records may lack a key; its groups have no subgroups.
SparseGroupRecords(g) ==
    {Raw("groups", g, 0, {})} \cup {Raw("groups", g, 0, {k}) : k \in GroupKeys}

SparseTrees ==
    {[top |-> t, sub |-> [g \in GroupIds |-> <<>>], rec |-> r] :
        t \in Listings,
        r \in {f \in [GroupIds -> UNION {SparseGroupRecords(g) : g \in GroupIds}] :
                  \A g \in GroupIds : f[g] \in SparseGroupRecords(g)}}

InitNorm ==
    /\ upstream \in
          {[records |-> [o \in FlatOps |-> SparseRecords(o)], tokens |-> {"None"}, tree |-> NoTree]}
          \cup {[records |-> [o \in FlatOps |-> {}], tokens |-> {"None"}, tree |-> tr] :
                    tr \in SparseTrees}
    /\ InitTasks

NextNorm ==
    \/ \E o \in Ops : Call(1, o)
    \/ \E a \in AnswersTo(1) : GetOK(1, a)
    \/ Normalize(1)
    \/ GroupsLoop(1)
    \/ GroupsReturn(1)

SpecNorm == InitNorm /\ [][NextNorm]_vars

\* Two fetches of flat endpoints started by one caller and run concurrently
\* (asyncio.gather), against an upstream with one record per endpoint.
InitConc ==
    /\ upstream = [records |-> [o \in FlatOps |-> {Raw(o, 1, 0, {})}],
                   tokens |-> {"None", "2"}, tree |-> NoTree]
    /\ InitTasks

NextConc ==
    \E t \in Tasks :
        \/ \E o \in FlatOps : Call(t, o)
        \/ Get429(t)
        \/ Wake(t)
        \/ \E s \in ErrorStatuses : GetError(t, s)
        \/ GetTimeout(t)
        \/ \E a \in AnswersTo(t) : GetOK(t, a)
        \/ Normalize(t)

SpecConc == InitConc /\ [][NextConc]_vars

\* One caller invokes a fetch of a flat endpoint and, once that invocation is
\* over, invokes the same fetch again on the same handler; the upstream gives
\* the second invocation, request by request, what it gave the first.
InitSeq ==
    /\ upstream = [records |-> [o \in FlatOps |-> FullRecords(o)],
                   tokens |-> HeaderValues, tree |-> NoTree]
    /\ InitTasks

NextSeq ==
    \/ \E o \in FlatOps : Call(1, o)
    \/ Get429(1)
    \/ \E s \in ErrorStatuses : GetError(1, s)
    \/ GetTimeout(1)
    \/ \E a \in AnswersTo(1) : GetOK(1, a)
    \/ pc[1] \in {"done", "failed"} /\ Call(2, op[1])
    \/ \E k \in 1..Len(responses[1]) :
          /\ k = Len(responses[2]) + 1
          /\ \/ responses[1][k].status = 429 /\ Get429(2)
             \/ responses[1][k].status \in ErrorStatuses /\ GetError(2, responses[1][k].status)
             \/ responses[1][k].status = 200 /\ GetOK(2, responses[1][k])
    \/ Len(responses[2]) = Len(responses[1]) /\ Len(requests[1]) > Len(responses[1])
          /\ GetTimeout(2)
    \/ \E t \in Tasks : Wake(t)
    \/ \E t \in Tasks : Normalize(t)

SpecSeq == InitSeq /\ [][NextSeq]_vars

\* One fetch of a flat endpoint that nobody cancels, against an upstream with
\* one record per endpoint that
\* ends the chain and stops throttling within the requests the model allows:
\* the last request it allows is not answered with a 429 (nor, by the guard of
\* GetOK, with a token).  Every await ends: the get with a response or with the
\* timeout of line 38, the sleep of line 42 when its period is over; and the
\* event loop runs a coroutine that can go on.
InitLive ==
    /\ upstream = [records |-> [o \in FlatOps |-> {Raw(o, 1, 0, {})}],
                   tokens |-> {"None", "2"}, tree |-> NoTree]
    /\ InitTasks

Responds(t) ==
    \/ MayRequest(t) /\ Get429(t)
    \/ \E s \in ErrorStatuses : GetError(t, s)
    \/ GetTimeout(t)
    \/ \E a \in AnswersTo(t) : GetOK(t, a)

NextLive ==
    \/ \E o \in FlatOps : Call(1, o)
    \/ Responds(1)
    \/ Wake(1)
    \/ Normalize(1)

SpecLive ==
    /\ InitLive /\ [][NextLive]_vars
    /\ WF_vars(Responds(1)) /\ WF_vars(Wake(1)) /\ WF_vars(Normalize(1))

(***************************************************************************)
(* Properties.                                                             *)
(***************************************************************************)
\* The 2xx responses a task has received, in order, and their pages.
Admitted(t) == SelectSeq(responses[t], LAMBDA r : r.status = 200)

PagesOf(rs) == [i \in 1..Len(rs) |-> rs[i].data]

Got429(t) == \E i \in 1..Len(responses[t]) : responses[t][i].status = 429

\* The step in which task t receives a response.
Receives(t) == Len(responses'[t]) = Len(responses[t]) + 1

\* C1: when _rate_limited_request returns, the list it returns is the
\* concatenation, in the order received, of the pages of the 2xx responses:
\* every record of every page once, whatever 429 responses came in between.
C1_PagesConcatenated ==
    \A t \in Tasks :
        pc[t] = "normalize" => all_data[t] = Concat(PagesOf(Admitted(t)))

\* Two pages (2 records, then 1) with a 429 in between have been returned.
C1_Witness ==
    /\ pc[1] = "normalize"
    /\ Got429(1)
    /\ Len(Admitted(1)) = 2
    /\ Len(Admitted(1)[1].data) = 2
    /\ Len(all_data[1]) = 3

\* C2: a 429 is never raised to the caller (a fetch fails only with the
\* status of a response that is neither 2xx nor 429, with a malformed record,
\* by a timeout or by cancellation); the result of a fetch is the normalisation of the
\* pages of its responses with the 429 responses removed; and the step that
\* receives a 429 leaves all_data and url as they were and goes to sleep.
C2_RateLimitAbsorbed ==
    /\ [](\A t \in Tasks :
            /\ pc[t] = "failed" =>
                  \/ error[t].type \in {"KeyError", "CancelledError", "TimeoutException"}
                  \/ /\ error[t].type = "HTTPStatusError"
                     /\ error[t].status \notin {200, 429}
                     /\ Last(responses[t]).status = error[t].status
            /\ pc[t] = "done" =>
                  result[t] = NormalizeBatch(op[t],
                      Concat(PagesOf(SelectSeq(responses[t], LAMBDA r : r.status # 429)))))
    /\ [][\A t \in Tasks :
            (Receives(t) /\ Last(responses'[t]).status = 429) =>
                /\ all_data'[t] = all_data[t]
                /\ url'[t] = url[t]
                /\ pc'[t] = "sleep"
                /\ error'[t] = NoError]_vars

\* A fetch that was throttled after its first page has completed with records.
C2_Witness ==
    /\ pc[1] = "done"
    /\ Len(responses[1]) = 3
    /\ responses[1][2].status = 429
    /\ Len(result[1]) = 2

\* C4: the step that receives a status that is neither 2xx nor 429 fails the
\* fetch with an error carrying that status, issues no request and returns
\* nothing; a failed fetch stays failed, issues no request and has no result.
C4_UpstreamErrorSurfaced ==
    /\ [][\A t \in Tasks :
            (Receives(t) /\ Last(responses'[t]).status \notin {200, 429}) =>
                /\ pc'[t] = "failed"
                /\ error'[t] = [type |-> "HTTPStatusError",
                                status |-> Last(responses'[t]).status]
                /\ requests'[t] = requests[t]
                /\ result'[t] = <<>>]_vars
    /\ [][\A t \in Tasks :
            pc[t] = "failed" =>
                /\ pc'[t] = "failed"
                /\ error'[t] = error[t]
                /\ requests'[t] = requests[t]
                /\ responses'[t] = responses[t]
                /\ result'[t] = <<>>]_vars

\* A fetch failed on its second page, after a first page with records.
C4_Witness ==
    /\ pc[1] = "failed"
    /\ error[1] = [type |-> "HTTPStatusError", status |-> 500]
    /\ Len(responses[1]) = 2
    /\ Len(responses[1][1].data) = 2
    /\ result[1] = <<>>

\* The chain of task t does not end: every response so far was a 2xx with a
\* token, and the last one named the very page that had been requested.
Runaway(t) ==
    /\ responses[t] # <<>>
    /\ \A i \in 1..Len(responses[t]) :
          responses[t][i].status = 200 /\ Truthy(responses[t][i].next)
    /\ Last(responses[t]).next = requests[t][Len(responses[t])].page

\* C8: a fetch whose continuation chain does not end stops within a bound
\* on its page requests, failing with ProtocolError: it never has as many
\* requests behind it as the model allows and is requesting the same page
\* yet again.  (The code counts no pages; this fails for every bound.)
C8_RunawayPaginationStops ==
    \A t \in Tasks :
        (Runaway(t) /\ Len(requests[t]) = MaxRequests) =>
            (pc[t] = "failed" /\ error[t].type = "ProtocolError")

\* The pre-order listing of the groups `ids` of hierarchy `tree`: each group's
\* dict, then the listing of its subgroups if its record says it has any, then
\* the rest.  `fuel` bounds the depth (a finished traversal is no deeper than
\* the interpreter allows).
RECURSIVE PreOrder(_, _, _)
PreOrder(tree, ids, fuel) ==
    IF ids = <<>> \/ fuel = 0 THEN <<>>
    ELSE LET r == tree.rec[Head(ids)]
         IN  <<GroupEntity(r)>>
                 \o (IF HasSubgroups(r) THEN PreOrder(tree, tree.sub[Head(ids)], fuel - 1)
                     ELSE <<>>)
                 \o PreOrder(tree, Tail(ids), fuel)

Children(tree, g) ==
    IF HasSubgroups(tree.rec[g]) THEN {tree.sub[g][i] : i \in 1..Len(tree.sub[g])} ELSE {}

RECURSIVE Descendants(_, _, _)
Descendants(tree, S, n) ==
    IF n = 0 THEN S
    ELSE Descendants(tree, S \cup UNION {Children(tree, h) : h \in S}, n - 1)

\* Some group listed at the top or below it is among its own descendants, and
\* the group with id 0 (for which line 58 requests /groups) has no subgroups.
Cyclic(tree) ==
    /\ ~HasSubgroups(tree.rec[0])
    /\ LET tops == {tree.top[i] : i \in 1..Len(tree.top)}
           reached == Descendants(tree, tops, Cardinality(GroupIds))
       IN  \E g \in reached :
               g \in Descendants(tree, Children(tree, g), Cardinality(GroupIds))

\* C7: in a cyclic hierarchy the recursion of fetch_groups is stopped by a
\* depth guard: a traversal that fails for its depth fails with
\* DepthExceeded, it does not recurse until the interpreter gives up.
C7_DepthGuarded ==
    \A t \in Tasks :
        (op[t] = "groups" /\ Cyclic(upstream.tree) /\ pc[t] = "failed"
            /\ error[t].type \notin {"HTTPStatusError", "KeyError", "CancelledError",
                                      "TimeoutException"}) =>
            error[t].type = "DepthExceeded"

\* C10: once the caller has cancelled a fetch, the fetch issues no request
\* and returns nothing, its next step is to fail, and when it is no longer
\* suspended it has failed with CancelledError and has no result.
C10_Cancellation ==
    /\ [](\A t \in Tasks :
            (cancelRequested[t] /\ pc[t] \notin {"get", "sleep"}) =>
                (pc[t] = "failed" /\ error[t].type = "CancelledError" /\ result[t] = <<>>))
    /\ [][\A t \in Tasks :
            cancelRequested[t] =>
                /\ requests'[t] = requests[t]
                /\ result'[t] = <<>>
                /\ cancelRequested'[t]
                /\ pc'[t] \in {pc[t], "failed"}]_vars

\* A traversal cancelled during the cooldown of a subgroups request, with a
\* group already collected.
C10_Witness ==
    /\ op[1] = "groups"
    /\ pc[1] = "failed" /\ error[1].type = "CancelledError"
    /\ Len(requests[1]) = 2
    /\ Len(responses[1]) = 2
    /\ responses[1][1].data # <<>>
    /\ responses[1][2].status = 429

\* The fields the specification's table of field mappings calls required and
\* optional for each kind, as keys of the raw record.
TableRequired(o) ==
    CASE o \in {"groups", "projects"} -> {"id", "name", "web_url"}
      [] OTHER -> {"id", "title", "state", "author", "author.username",
                   "created_at", "updated_at", "web_url"}

\* The optional keys C6 lists, with the field of the canonical entity each maps to.
ListedOptional(o) ==
    CASE o = "groups" -> {<<"description", "description">>, <<"visibility", "visibility">>}
      [] o = "projects" -> {<<"description", "description">>, <<"namespace.full_path", "namespace">>}
      [] o = "merge_requests" -> {<<"merged_at", "mergedAt">>, <<"reviewers", "reviewers">>}
      [] OTHER -> {<<"closed_at", "closedAt">>, <<"labels", "labels">>}

\* The batch a finished fetch was given: the records of its 2xx responses.
Batch(t) == Concat(PagesOf(Admitted(t)))

Finished(t) == pc[t] \in {"done", "failed"}

\* A record that carries the required fields of its kind; a record that
\* names reviewers names them by username.
WellFormed(o, r) ==
    /\ TableRequired(o) \subseteq r.has
    /\ "reviewers" \in r.has => "reviewers[].username" \in r.has

\* C5: a fetch whose records all carry the required fields returns one entity
\* per record, in order, identified by the record's id; a fetch with a record
\* lacking a required field fails and returns nothing.
C5_AllOrNothing ==
    \A t \in Tasks :
        Finished(t) =>
            /\ (\A i \in 1..Len(Batch(t)) : WellFormed(op[t], Batch(t)[i])) =>
                  /\ pc[t] = "done"
                  /\ Len(result[t]) = Len(Batch(t))
                  /\ \A i \in 1..Len(Batch(t)) : result[t][i].identifier = Batch(t)[i].id
            /\ (\E i \in 1..Len(Batch(t)) : ~(TableRequired(op[t]) \subseteq Batch(t)[i].has)) =>
                  (pc[t] = "failed" /\ result[t] = <<>>)

\* The "no value" a missing optional field maps to: None, or the empty list
\* of a list-valued field.
NoValue == {"None", "[]"}

\* A record that lacks nothing but optional fields C6 lists for its kind.
LacksOnlyOptional(o, r) ==
    /\ WellFormed(o, r)
    /\ \A k \in KeysOf(o) \ r.has :
          \E kf \in ListedOptional(o) :
              \/ k = kf[1]
              \/ k \in Nested(kf[1])
              \/ kf[1] \in Nested(k)

\* C6: a fetch whose records carry the required fields and lack only
\* optional ones succeeds, and each entity holds the "no value" marker
\* in the field of every optional key its record lacks.
C6_OptionalFieldsDefault ==
    \A t \in Tasks :
        (Finished(t) /\ \A i \in 1..Len(Batch(t)) : LacksOnlyOptional(op[t], Batch(t)[i]))
        => /\ pc[t] = "done"
           /\ Len(result[t]) = Len(Batch(t))
           /\ \A i \in 1..Len(Batch(t)) : \A kf \in ListedOptional(op[t]) :
                 kf[1] \notin Batch(t)[i].has => result[t][i][kf[2]] \in NoValue

\* C9: while one fetch sleeps out the cooldown of a 429, no other fetch in
\* progress issues a request.
C9_SharedCooldown ==
    [][\A t, u \in Tasks :
          (t # u /\ pc[t] = "sleep" /\ pc[u] \in {"get", "sleep"}) =>
              requests'[u] = requests[u]]_vars

\* C11: two invocations of the same fetch that received the same sequence of
\* responses ended alike, with the same output, equal in content and order;
\* and the second invocation, given what the first was given, makes
\* the same requests and takes every response the first took.
C11_Deterministic ==
    /\ \A t, u \in Tasks :
          (op[t] = op[u] /\ Finished(t) /\ Finished(u) /\ responses[t] = responses[u]
              /\ Len(requests[t]) = Len(requests[u])) =>
              (result[t] = result[u] /\ pc[t] = pc[u] /\ error[t] = error[u])
    /\ (Finished(1) /\ Finished(2)) =>
          (responses[2] = responses[1] /\ requests[2] = requests[1])

\* Both invocations returned the two different records of two pages, the
\* second page requested twice because of a 429.
C11_Witness ==
    /\ pc[1] = "done" /\ pc[2] = "done"
    /\ Len(responses[2]) = 3
    /\ responses[2][2].status = 429
    /\ Len(result[2]) = 2
    /\ result[2][1].identifier # result[2][2].identifier

\* The identifiers of a sequence of records or entities are pairwise different.
Distinct(ids) == \A i, j \in 1..Len(ids) : i # j => ids[i] # ids[j]

\* C12: no two entities of the result of a fetch have the same identifier,
\* also when the upstream, whose every page lists each id once, returns an id
\* on two pages.  (The code removes no duplicate: line 47 extends.)
C12_UniqueIdentifiers ==
    \A t \in Tasks :
        (pc[t] = "done"
            /\ \A k \in 1..Len(Admitted(t)) :
                  Distinct([i \in 1..Len(Admitted(t)[k].data) |-> Admitted(t)[k].data[i].id]))
        => Distinct([i \in 1..Len(result[t]) |-> result[t][i].identifier])

\* The requests of task t that have no response: one while a request is in
\* flight, and one for good after a request that timed out or was cancelled.
Unanswered(t) == Len(requests[t]) - Len(responses[t])

\* C13: a request that timed out is retried a bounded number of times (not at
\* all) and then surfaced: no request is ever issued after one that got no
\* response, and a fetch whose last request is over without a response, and
\* that nobody cancelled, has failed with the timeout error and has no result.
C13_TimeoutSurfaced ==
    \A t \in Tasks :
        /\ Unanswered(t) <= 1
        /\ (Unanswered(t) = 1 /\ pc[t] # "get" /\ ~cancelRequested[t]) =>
              /\ pc[t] = "failed"
              /\ error[t].type = "TimeoutException"
              /\ result[t] = <<>>

\* The request of the second page timed out, after a first page of two records.
C13_Witness ==
    /\ pc[1] = "failed"
    /\ error[1].type = "TimeoutException"
    /\ Len(requests[1]) = 2
    /\ Len(responses[1]) = 1
    /\ Len(responses[1][1].data) = 2
    /\ result[1] = <<>>

\* C14: the step that receives a 429 issues no request; as long as the fetch
\* sleeps out the cooldown it issues none; and the request it issues when the
\* sleep is over is for the endpoint and page of the request that was
\* throttled, not for the first page and not for the page after.
C14_RetrySamePage ==
    [][\A t \in Tasks :
          /\ (Receives(t) /\ Last(responses'[t]).status = 429) =>
                (requests'[t] = requests[t] /\ pc'[t] = "sleep")
          /\ pc[t] = "sleep" =>
                \/ requests'[t] = requests[t] /\ pc'[t] \in {"sleep", "failed"}
                \/ /\ pc'[t] = "get"
                   /\ Len(requests'[t]) = Len(requests[t]) + 1
                   /\ SubSeq(requests'[t], 1, Len(requests[t])) = requests[t]
                   /\ Last(requests'[t]).endpoint = Last(requests[t]).endpoint
                   /\ Last(requests'[t]).page = Last(requests[t]).page]_vars

\* The request of page "2" was throttled and page "2" has been requested again.
C14_Witness ==
    /\ pc[1] = "get"
    /\ Len(requests[1]) = 3
    /\ Len(responses[1]) = 2
    /\ responses[1][2].status = 429
    /\ requests[1][2].page = "2"
    /\ requests[1][3].page = "2"

\* C15: every request of a fetch called with query parameters is made with
\* those parameters (line 38 passes params on every iteration): the first-page
\* request, every follow-up request, whose url names the page of the token
\* just received, and every retry after a 429, whose url is the throttled one.
C15_ParamsOnEveryRequest ==
    \A t \in Tasks : \A i \in 1..Len(requests[t]) :
        /\ requests[t][i].params = ParamsOf(op[t])
        /\ requests[t][i].endpoint = EndpointOf(op[t])
        /\ requests[t][i].page =
              IF i = 1 THEN "None"
              ELSE IF responses[t][i - 1].status = 429 THEN requests[t][i - 1].page
              ELSE responses[t][i - 1].next

\* A follow-up request for page "2" and its retry after a 429 were both made
\* with the per_page (and scope) the fetch was called with.
C15_Witness ==
    /\ Len(requests[1]) = 3
    /\ responses[1][2].status = 429
    /\ requests[1][2].page = "2" /\ requests[1][3].page = "2"
    /\ requests[1][2].params # NoParams /\ requests[1][3].params # NoParams

\* C15 as stated: a request built from a continuation token, a retry of it
\* included, carries none of the parameters the fetch was called with.
C15_OnlyFirstPageParams ==
    \A t \in Tasks : \A i \in 1..Len(requests[t]) :
        requests[t][i].page # "None" => requests[t][i].params \cap ParamsOf(op[t]) = {}

\* A response that carries a continuation token: X-Next-Page present and not empty.
HasToken(r) == r.next \notin {"None", ""}

\* C16: a fetch of a flat endpoint is past its requests exactly when its last
\* response is a 2xx without a token and every 2xx before it had one; the
\* step that receives a 2xx with a token, whatever the page holds, requests
\* the page of the token, and the step that receives one without a token
\* returns the accumulator and issues no request, nor does any step after it;
\* an empty first page without a token gives the empty result, no error, after
\* one request.
C16_StopsAtFirstTokenlessPage ==
    /\ [](\A t \in Tasks :
            /\ pc[t] \in {"normalize", "done"} =>
                  /\ Len(requests[t]) = Len(responses[t])
                  /\ Last(responses[t]).status = 200 /\ ~HasToken(Last(responses[t]))
                  /\ \A i \in 1..(Len(responses[t]) - 1) :
                        responses[t][i].status = 200 => HasToken(responses[t][i])
            /\ (Finished(t) /\ Len(responses[t]) = 1 /\ responses[t][1].status = 200
                    /\ responses[t][1].data = <<>> /\ ~HasToken(responses[t][1])) =>
                  (pc[t] = "done" /\ result[t] = <<>> /\ error[t] = NoError
                      /\ Len(requests[t]) = 1))
    /\ [][\A t \in Tasks :
            /\ (Receives(t) /\ Last(responses'[t]).status = 200) =>
                  IF HasToken(Last(responses'[t]))
                  THEN /\ pc'[t] = "get"
                       /\ Len(requests'[t]) = Len(requests[t]) + 1
                       /\ Last(requests'[t]).page = Last(responses'[t]).next
                  ELSE /\ pc'[t] = "normalize"
                       /\ requests'[t] = requests[t]
                       /\ all_data'[t] = all_data[t] \o Last(responses'[t]).data
            /\ pc[t] \in {"normalize", "done"} =>
                  (requests'[t] = requests[t] /\ responses'[t] = responses[t])]_vars

\* An empty page with a token was followed, and the fetch returned after the
\* next page, whose X-Next-Page header was empty.
C16_Witness ==
    /\ pc[1] = "done"
    /\ Len(responses[1]) = 2
    /\ responses[1][1].data = <<>> /\ responses[1][1].next = "2"
    /\ responses[1][2].next = "" /\ Len(responses[1][2].data) = 1
    /\ Len(result[1]) = 1

\* C17: a fetch in progress eventually returns or fails; and there is no
\* retry ceiling: however many 429 responses came before, one more sends the
\* fetch to sleep without an error, and no fetch has failed with a 429.
C17_EventuallyCompletes ==
    /\ \A t \in Tasks : (pc[t] \in {"get", "sleep", "normalize"}) ~> Finished(t)
    /\ [](\A t \in Tasks :
            pc[t] = "failed" => error[t].status # 429)
    /\ [][\A t \in Tasks :
            (Receives(t) /\ Last(responses'[t]).status = 429) =>
                (pc'[t] = "sleep" /\ error'[t] = NoError)]_vars

\* A fetch returned a record after two 429 responses in a row.
C17_Witness ==
    /\ pc[1] = "done"
    /\ Len(responses[1]) = 3
    /\ responses[1][1].status = 429 /\ responses[1][2].status = 429
    /\ Len(result[1]) = 1

\* C18: the request a fetch_groups activation has in flight is for /groups if
\* the activation was given no parent id, and for /groups/{id}/subgroups of its
\* parent id otherwise, 0 included.  (Line 58 tests `not parent_id`.)
C18_SubgroupsEndpoint ==
    \A t \in Tasks :
        (op[t] = "groups" /\ pc[t] = "get") =>
            url[t].endpoint =
                IF Top(t).parent_id = NoParent
                THEN [path |-> "/groups", id |-> 0]
                ELSE [path |-> "/groups/{id}/subgroups", id |-> Top(t).parent_id]

\* The subgroup-count hint of a raw group record is greater than zero.
HintPositive(r) == "subgroup_count" \in r.has /\ r.count > 0

\* C19: the step of the loop over a listing that takes a group record issues a
\* request, that of a new fetch_groups activation, if the record's hint is
\* greater than zero, and otherwise issues none and appends the record's dict;
\* a finished traversal returned one dict per record it received and received
\* one listing more than the records with a hint greater than zero.
C19_RecursesOnHint ==
    /\ [][\A t \in Tasks :
            (pc[t] = "loop" /\ pc'[t] # "failed" /\ Top(t).i <= Len(Top(t).data)
                /\ stack'[t] # stack[t]) =>
                IF HintPositive(Top(t).data[Top(t).i])
                THEN /\ Len(requests'[t]) = Len(requests[t]) + 1
                     /\ Len(stack'[t]) = Len(stack[t]) + 1
                     /\ pc'[t] = "get"
                ELSE /\ requests'[t] = requests[t]
                     /\ Len(stack'[t]) = Len(stack[t])
                     /\ stack'[t][Len(stack[t])].all_groups =
                            Append(Top(t).all_groups, GroupEntity(Top(t).data[Top(t).i]))]_vars
    /\ [](\A t \in Tasks :
            (op[t] = "groups" /\ pc[t] = "done") =>
                /\ Len(result[t]) = Len(Batch(t))
                /\ Len(Admitted(t)) =
                      1 + Cardinality({i \in 1..Len(Batch(t)) : HintPositive(Batch(t)[i])}))

\* A finished traversal of three records: one with a hint greater than zero,
\* whose subgroups were fetched, and one without the hint, which is in the output.
C19_Witness ==
    /\ op[1] = "groups" /\ pc[1] = "done"
    /\ Len(result[1]) = 3
    /\ Len(Admitted(1)) = 2
    /\ \E i \in 1..Len(Batch(1)) :
          /\ "subgroup_count" \notin Batch(1)[i].has
          /\ \E j \in 1..Len(result[1]) : result[1][j].identifier = Batch(1)[i].id

\* C20: the step of a traversal that receives an error status, at any depth,
\* and the step that takes a group record lacking a required field, at any
\* depth, fail the top-level call with that error; a failed traversal has no
\* activation left, no result, and stays failed; a traversal that returned
\* received no error status and no record lacking a required field.
C20_GroupsAllOrNothing ==
    /\ [][\A t \in Tasks :
            /\ (Receives(t) /\ Last(responses'[t]).status \notin {200, 429}) =>
                  /\ pc'[t] = "failed"
                  /\ error'[t] = [type |-> "HTTPStatusError",
                                  status |-> Last(responses'[t]).status]
            /\ (pc[t] = "loop" /\ Top(t).i <= Len(Top(t).data)
                    /\ ~(TableRequired("groups") \subseteq Top(t).data[Top(t).i].has)) =>
                  (pc'[t] = "failed" /\ error'[t].type = "KeyError")
            /\ pc[t] = "failed" => (pc'[t] = "failed" /\ error'[t] = error[t])]_vars
    /\ [](\A t \in Tasks :
            /\ pc[t] = "failed" => (result[t] = <<>> /\ stack[t] = <<>>)
            /\ (op[t] = "groups" /\ pc[t] = "done") =>
                  /\ \A i \in 1..Len(responses[t]) : responses[t][i].status \in {200, 429}
                  /\ \A i \in 1..Len(Batch(t)) :
                        TableRequired("groups") \subseteq Batch(t)[i].has)

\* A traversal failed on a record of a subgroups listing that lacks a
\* required field, after the dict of the parent had been collected.
C20_Witness ==
    /\ op[1] = "groups"
    /\ pc[1] = "failed" /\ error[1].type = "KeyError"
    /\ Len(responses[1]) = 2
    /\ responses[1][1].status = 200 /\ responses[1][2].status = 200
    /\ TableRequired("groups") \subseteq responses[1][1].data[1].has
    /\ \E i \in 1..Len(responses[1][2].data) :
          ~(TableRequired("groups") \subseteq responses[1][2].data[i].has)
    /\ requests[1][2].endpoint.path = "/groups/{id}/subgroups"
    /\ result[1] = <<>>

=============================================================================
